---- MODULE Spec2Model ----
(***************************************************************************)
(* A model of ramlfications/parameters.py: the entity normalizers (init),  *)
(* the list builders (init_list), the inheritance merger                   *)
(* (_inherit_type_properties) and the security scheme assembler            *)
(* (SecurityScheme.from_file).                                             *)
(*                                                                         *)
(* Python values are modelled as follows.                                  *)
(*   - None, booleans, numbers and strings are tokens: "None", "True",     *)
(*     "False", "0", "7", "" (the empty string), "text", ...               *)
(*     A status code is the token of its number ("404"), ordered as the   *)
(*     number.                                                             *)
(*   - a declaration (a dict read with .get, or None) is a tagged record:  *)
(*     [tag |-> "None"] or [tag |-> "dict", items |-> function].           *)
(*   - a mapping that the code iterates is ordered:                        *)
(*     [tag |-> "odict", pairs |-> sequence of [key, value]].              *)
(*   - a Python list is [tag |-> "list", items |-> sequence].              *)
(*   - an object is a function from its attribute names to their values;   *)
(*     "kind" holds its class. A list object used as an errors collection  *)
(*     is modelled by its identity (a token).                              *)
(*                                                                         *)
(* The validators of the attributes (module validate) run when a record is *)
(* constructed and are outside this file. instance_of(dict) on raw, which  *)
(* rejects a None declaration of a Body, is part of Body_init; the two     *)
(* type validators of a named parameter are predicates on a record.        *)
(***************************************************************************)
EXTENDS Naturals, Sequences, FiniteSets, TLC

VARIABLES
    self,             \* the record _inherit_type_properties runs on
    data,             \* the declaration self was built from by init
    inherited_param,  \* the argument of the running/last merge
    pre,              \* self as it was when the running/last merge was called
    i,                \* position of the merge's outer loop in inherited_param
    pc,               \* "idle": no merge is running; "loop": one is
    op,               \* the builder operation called, with its arguments
    ret,              \* what that operation returned
    sinks             \* per pass, the errors lists its records are bound to

vars == <<self, data, inherited_param, pre, i, pc, op, ret, sinks>>
mergeVars == <<self, data, inherited_param, pre, i, pc>>
buildVars == <<op, ret, sinks>>

\* ----------------------------------------------------------------- values

None == "None"

NoneValue == [tag |-> "None"]
Dict(f) == [tag |-> "dict", items |-> f]
ODict(s) == [tag |-> "odict", pairs |-> s]
List(s) == [tag |-> "list", items |-> s]
Raise(e) == [tag |-> "raise", exc |-> e]
Pair(k, v) == [key |-> k, value |-> v]

EmptyItems == [k \in {} |-> None]
EmptyDict == Dict(EmptyItems)
EmptyODict == ODict(<<>>)

\* Python truthiness of a token: None, False, 0 and '' are falsy.
Falsy == {"None", "False", "0", ""}

NAMED_PARAMS == <<"desc", "type", "enum", "pattern", "minimum", "maximum",
                  "example", "default", "required", "repeat", "display_name",
                  "max_length", "min_length">>

\* getattr(o, n, d) and setattr(o, n, v) on an object.
Getattr(o, n, d) == IF n \in DOMAIN o THEN o[n] ELSE d
Setattr(o, n, v) == [x \in (DOMAIN o) \cup {n} |-> IF x = n THEN v ELSE o[x]]

Range(s) == {s[k] : k \in 1..Len(s)}

First(J) == CHOOSE j \in J : \A k \in J : j <= k

\* v stands for an exception that left the call.
IsRaise(v) == "tag" \in DOMAIN v /\ v.tag = "raise"

\* ------------------------------------------------------ field extractor

\* BaseParameter._get: data.get(item, default); a data without .get (None)
\* raises AttributeError, which is caught and yields the default.
_get(d, item, default) ==
    IF d.tag = "dict"
    THEN IF item \in DOMAIN d.items THEN d.items[item] ELSE default
    ELSE default

\* ---------------------------------------------------- entity normalizers

\* The default of required: True for a URIParameter, False otherwise.
DefaultRequiredAlwaysFalse(cls) == "False"

DefaultRequired(cls) == IF cls = "URIParameter" THEN "True" ELSE "False"

\* As RawOfParameter, but with the default of required written into the
\* declaration that is kept.
RawWithDefaults(name, d) ==
    Dict(name :> Dict([k \in (IF d.tag = "dict" THEN DOMAIN d.items ELSE {})
                             \cup {"required"} |->
                         IF d.tag = "dict" /\ k \in DOMAIN d.items
                         THEN d.items[k] ELSE "False"]))

\* raw={name: data}
RawOfParameter(name, d) == Dict(name :> d)

\* BaseParameter.init for cls in URIParameter, QueryParameter, FormParameter,
\* Header. kwargs is a dict.
init(cls, name, d, config, errors, kwargs) ==
    LET required == _get(d, "required", DefaultRequired(cls))
        arguments ==
            [kind |-> cls, name |-> name, raw |-> RawOfParameter(name, d),
             desc |-> _get(d, "description", None),
             display_name |-> _get(d, "displayName", name),
             min_length |-> _get(d, "minLength", None),
             max_length |-> _get(d, "maxLength", None),
             minimum |-> _get(d, "minimum", None),
             maximum |-> _get(d, "maximum", None),
             default |-> _get(d, "default", None),
             enum |-> _get(d, "enum", None),
             example |-> _get(d, "example", None),
             required |-> required,
             repeat |-> _get(d, "repeat", "False"),
             pattern |-> _get(d, "pattern", None),
             type |-> _get(d, "type", "string"),
             config |-> config, errors |-> errors]
    IN  IF cls = "Header"
        THEN Setattr(arguments, "method", _get(kwargs, "method", None))
        ELSE arguments

\* utils.load_schema: an inline schema or example is returned as it is, a
\* string naming a schema file is replaced by the file's content.
load_schema(v) == IF v = "schema.json" THEN "{file content}" ELSE v

\* Body.init. The instance_of(dict) validator of raw rejects a None
\* declaration with a TypeError.
Body_init(name, d, config, errors) ==
    IF d.tag # "dict" THEN Raise("TypeError")
    ELSE [kind |-> "Body", mime_type |-> name, raw |-> d,
          schema |-> load_schema(_get(d, "schema", None)),
          example |-> load_schema(_get(d, "example", None)),
          form_params |-> _get(d, "formParameters", None),
          config |-> config, errors |-> errors]

\* ----------------------------------------------------------- list builders

\* The list objects created once, when each function is defined, as the
\* default of its errors parameter (errors=[]): one per function, shared by
\* all the calls that do not pass errors. URIParameter, QueryParameter,
\* FormParameter and Header inherit BaseParameter's two functions.
DefaultErrors(function) == "default errors of " \o function

\* BaseParameter.init_list, errors passed by the caller.
BaseParameter_init_list(cls, d, config, errors, kwargs) ==
    IF d.tag # "odict" THEN Raise("AttributeError")
    ELSE LET objects == [k \in 1..Len(d.pairs) |->
                            init(cls, d.pairs[k].key, d.pairs[k].value,
                                 config, errors, kwargs)]
         IN  IF Len(d.pairs) = 0 THEN NoneValue ELSE List(objects)

\* Body.init_list, errors passed by the caller. An exception of Body.init
\* leaves the loop.
Body_init_list(d, config, errors) ==
    IF d.tag # "odict" THEN Raise("AttributeError")
    ELSE LET bodies == [k \in 1..Len(d.pairs) |->
                           Body_init(d.pairs[k].key, d.pairs[k].value,
                                     config, errors)]
             raised == {k \in 1..Len(d.pairs) : IsRaise(bodies[k])}
         IN  IF raised # {} THEN Raise("TypeError") ELSE List(bodies)

\* Response.init: data.get raises AttributeError on a None declaration; the
\* two nested list builders are called without errors.
Response_init(name, d, config, errors) ==
    IF d.tag # "dict" THEN Raise("AttributeError")
    ELSE LET headers == BaseParameter_init_list("Header",
                            _get(d, "headers", EmptyODict), config,
                            DefaultErrors("BaseParameter.init_list"), EmptyDict)
             body == Body_init_list(_get(d, "body", EmptyODict), config,
                                    DefaultErrors("Body.init_list"))
         IN  IF headers.tag = "raise" THEN headers
             ELSE IF body.tag = "raise" THEN body
             ELSE [kind |-> "Response", code |-> name, raw |-> d,
                   desc |-> _get(d, "description", None),
                   headers |-> headers, body |-> body,
                   config |-> config, errors |-> errors, method |-> None]

\* The number a status code stands for.
CodeNumber(code) ==
    CASE code = "200" -> 200
      [] code = "201" -> 201
      [] code = "404" -> 404
      [] code = "500" -> 500

\* The responses left in the order of their declaration.
sorted_forgotten(s) == s

\* sorted(responses, key=lambda x: x.code): a stable sort, here by insertion
\* of each response after the responses whose code is not greater.
RECURSIVE sorted(_)
sorted(s) ==
    IF Len(s) = 0 THEN <<>>
    ELSE LET front == sorted(SubSeq(s, 1, Len(s) - 1))
             x == s[Len(s)]
             k == Cardinality({j \in 1..Len(front) :
                     CodeNumber(front[j].code) <= CodeNumber(x.code)})
         IN  SubSeq(front, 1, k) \o <<x>> \o SubSeq(front, k + 1, Len(front))

\* Response.init_list, errors passed by the caller.
Response_init_list(d, config, errors) ==
    IF d.tag # "odict" THEN Raise("AttributeError")
    ELSE LET responses == [k \in 1..Len(d.pairs) |->
                              Response_init(d.pairs[k].key, d.pairs[k].value,
                                            config, errors)]
             raised == {k \in 1..Len(d.pairs) : IsRaise(responses[k])}
         IN  IF raised # {} THEN responses[First(raised)]
             ELSE List(sorted(responses))

\* ------------------------------------------------------ inheritance merger

\* The inner loop of the four mergers:
\*     for n in names:
\*         attr = getattr(self, n, None)
\*         if attr is None:
\*             attr = getattr(param, n, None)
\*             setattr(self, n, attr)
RECURSIVE InheritNames(_, _, _, _)
InheritNames(s, param, names, k) ==
    IF k > Len(names) THEN s
    ELSE LET n == names[k]
             attr == Getattr(s, n, None)
         IN  InheritNames(IF attr = None
                          THEN Setattr(s, n, Getattr(param, n, None))
                          ELSE s,
                          param, names, k + 1)

\* The inner loop with "if not attr" in the place of "if attr is None".
RECURSIVE InheritNamesFalsy(_, _, _, _)
InheritNamesFalsy(s, param, names, k) ==
    IF k > Len(names) THEN s
    ELSE LET n == names[k]
             attr == Getattr(s, n, None)
         IN  InheritNamesFalsy(IF attr \in Falsy
                               THEN Setattr(s, n, Getattr(param, n, None))
                               ELSE s,
                               param, names, k + 1)

\* The inner loop without "if attr is None".
RECURSIVE InheritNamesOverwrite(_, _, _, _)
InheritNamesOverwrite(s, param, names, k) ==
    IF k > Len(names) THEN s
    ELSE InheritNamesOverwrite(Setattr(s, names[k],
                                       Getattr(param, names[k], None)),
                               param, names, k + 1)

\* BaseParameter's iteration testing the truth of attr, not "is None".
BaseParameter_inherit_falsy(s, param) ==
    LET name == Getattr(param, "name", Getattr(param, "code", None))
    IN  IF name = s.name THEN InheritNamesFalsy(s, param, NAMED_PARAMS, 1)
        ELSE s

\* BaseParameter's iteration without the name filter.
BaseParameter_inherit_any_name(s, param) ==
    InheritNames(s, param, NAMED_PARAMS, 1)

\* Header's iteration with the name filter of BaseParameter.
Header_inherit_same_name(s, param) ==
    IF param.name = s.name
    THEN InheritNames(s, param, NAMED_PARAMS \o <<"method">>, 1)
    ELSE s

\* Body's iteration without "if attr is None".
Body_inherit_overwrite(s, param) ==
    IF param.mime_type # s.mime_type THEN s
    ELSE InheritNamesOverwrite(s, param,
                               <<"schema", "example", "form_params">>, 1)

\* One iteration of the loop of BaseParameter._inherit_type_properties.
BaseParameter_inherit(s, param) ==
    LET name == Getattr(param, "name", Getattr(param, "code", None))
    IN  IF name = s.name THEN InheritNames(s, param, NAMED_PARAMS, 1) ELSE s

\* One iteration of the loop of Header._inherit_type_properties.
Header_inherit(s, param) ==
    InheritNames(s, param, NAMED_PARAMS \o <<"method">>, 1)

\* One iteration of the loop of Body._inherit_type_properties.
Body_inherit(s, param) ==
    IF param.mime_type # s.mime_type THEN s
    ELSE InheritNames(s, param, <<"schema", "example", "form_params">>, 1)

\* One iteration of the loop of Response._inherit_type_properties.
Response_inherit(s, param) == InheritNames(s, param, NAMED_PARAMS, 1)

NamedParameterKinds == {"URIParameter", "QueryParameter", "FormParameter"}

\* The method the class of s binds to _inherit_type_properties.
inherit_iteration(s, param) ==
    CASE s.kind \in NamedParameterKinds -> BaseParameter_inherit(s, param)
      [] s.kind = "Header" -> Header_inherit(s, param)
      [] s.kind = "Body" -> Body_inherit(s, param)
      [] s.kind = "Response" -> Response_inherit(s, param)

\* The attributes the merger of each class may fill.
Inheritable(kind) ==
    CASE kind \in NamedParameterKinds -> Range(NAMED_PARAMS)
      [] kind = "Header" -> Range(NAMED_PARAMS) \cup {"method"}
      [] kind = "Body" -> {"schema", "example", "form_params"}
      [] kind = "Response" -> Range(NAMED_PARAMS)

\* ------------------------------------------------------------------ inputs

\* The longest list of ancestors a merge is called with.
MaxAncestors == 2

\* The config object and the errors collections of two independent passes.
Config == "config"
Passes == {"E1", "E2"}

ParamNames == {"id", "lang"}

\* Declarations of a named parameter. A key declared without a value
\* ("type:") reads as None.
DeclUnset == Dict(("type" :> None) @@ ("required" :> None)
                  @@ ("displayName" :> None) @@ ("repeat" :> None))
DeclA == Dict(("type" :> "integer") @@ ("minimum" :> "0")
              @@ ("required" :> "True"))
DeclB == Dict(("type" :> None) @@ ("description" :> "")
              @@ ("required" :> "False") @@ ("minimum" :> "7"))
DeclC == Dict(("type" :> "string") @@ ("minLength" :> "1")
              @@ ("pattern" :> "^[a-z]+$"))
ParamDecls == {NoneValue, EmptyDict, DeclUnset, DeclA, DeclB}
AncestorDecls == {NoneValue, DeclA, DeclB, DeclC}

\* The method a header's declaration is found under (kwargs of init).
NoKwargs == EmptyDict
MethodOf(d) == IF d = DeclA THEN Dict("method" :> "get")
               ELSE IF d = DeclB THEN Dict("method" :> "post")
               ELSE NoKwargs

MimeTypes == {"application/json", "text/xml"}
BodyA == Dict(("schema" :> "schema.json") @@ ("example" :> None))
BodyB == Dict(("example" :> "") @@ ("formParameters" :> "{form}"))
BodyC == Dict(("schema" :> "{inline}") @@ ("example" :> "{example}"))
BodyDecls == {EmptyDict, BodyA, BodyB}
AncestorBodyDecls == {BodyA, BodyB, BodyC}

Codes == {"200", "404"}
HeadersX == ODict(<<Pair("X-Id", DeclA), Pair("X-Lang", NoneValue)>>)
BodiesX == ODict(<<Pair("text/xml", BodyB)>>)
ResponseA == Dict("description" :> "ok")
ResponseB == Dict(("description" :> "") @@ ("headers" :> HeadersX))
ResponseC == Dict(("description" :> None) @@ ("body" :> BodiesX))
ResponseDecls == {EmptyDict, ResponseA, ResponseB, ResponseC}
AncestorResponseDecls == {ResponseA, ResponseB, ResponseC}

Kinds == NamedParameterKinds \cup {"Header", "Body", "Response"}

\* The records the ancestors of a record of a kind are taken from.
AncestorRecords(kind) ==
    CASE kind \in NamedParameterKinds ->
            {init(kind, n, d, Config, "E1", NoKwargs) :
                n \in ParamNames, d \in AncestorDecls}
      [] kind = "Header" ->
            {init(kind, n, d, Config, "E1", MethodOf(d)) :
                n \in ParamNames, d \in AncestorDecls}
      [] kind = "Body" ->
            {Body_init(m, d, Config, "E1") :
                m \in MimeTypes, d \in AncestorBodyDecls}
      [] kind = "Response" ->
            {Response_init(c, d, Config, "E1") :
                c \in Codes, d \in AncestorResponseDecls}

SeqsUpTo(S, n) == UNION {[1..k -> S] : k \in 0..n}

AncestorLists(kind) == SeqsUpTo(AncestorRecords(kind), MaxAncestors)

\* ------------------------------------------------- the merger, step by step

\* A record has been built by init from a declaration.
Init ==
    /\ \/ \E cls \in NamedParameterKinds, n \in ParamNames, d \in ParamDecls :
            /\ self = init(cls, n, d, Config, "E1", NoKwargs)
            /\ data = d
       \/ \E n \in ParamNames, d \in ParamDecls, kw \in {NoKwargs, MethodOf(DeclA)} :
            /\ self = init("Header", n, d, Config, "E1", kw)
            /\ data = d
       \/ \E m \in MimeTypes, d \in BodyDecls :
            /\ self = Body_init(m, d, Config, "E1")
            /\ data = d
       \/ \E c \in Codes, d \in ResponseDecls :
            /\ self = Response_init(c, d, Config, "E1")
            /\ data = d
    /\ inherited_param = <<>>
    /\ pre = self
    /\ i = 0
    /\ pc = "idle"
    /\ op = [name |-> "none"]
    /\ ret = NoneValue
    /\ sinks = [p \in Passes |-> {}]

\* record._inherit_type_properties(inherited_param) is called, on a record
\* just built or merged before.
Call_inherit_type_properties ==
    /\ pc = "idle"
    /\ \E A \in AncestorLists(self.kind) : inherited_param' = A
    /\ pre' = self
    /\ i' = 1
    /\ pc' = "loop"
    /\ UNCHANGED <<self, data, op, ret, sinks>>

\* for param in inherited_param: one iteration.
Iterate ==
    /\ pc = "loop"
    /\ i <= Len(inherited_param)
    /\ self' = inherit_iteration(self, inherited_param[i])
    /\ i' = i + 1
    /\ UNCHANGED <<data, inherited_param, pre, pc, op, ret, sinks>>

\* The loop has run through the list.
LoopDone == pc = "loop" /\ i > Len(inherited_param)

\* The merge returns: its frame (the argument, the loop variable) is gone and
\* the caller holds the record as it is now.
Return ==
    /\ LoopDone
    /\ pc' = "idle"
    /\ inherited_param' = <<>>
    /\ pre' = self
    /\ i' = 0
    /\ UNCHANGED <<self, data, op, ret, sinks>>

Next == Call_inherit_type_properties \/ Iterate \/ Return

Spec == Init /\ [][Next]_vars

\* ------------------------------------------------- properties of the merger

\* The identity match rule of a kind: the name for a named parameter, the
\* MIME type for a body, none for a header or a response.
MatchRule(r, a) ==
    CASE r.kind \in NamedParameterKinds -> a.name = r.name
      [] r.kind = "Body" -> a.mime_type = r.mime_type
      [] OTHER -> TRUE

\* The positions in A of the ancestors that match r and have n set.
Offers(r, A, n) ==
    {j \in 1..Len(A) : MatchRule(r, A[j]) /\ Getattr(A[j], n, None) # None}

\* The value of n at the first such ancestor, None when there is none.
FirstOffer(r, A, n) ==
    IF Offers(r, A, n) = {} THEN None
    ELSE Getattr(A[First(Offers(r, A, n))], n, None)

\* C1: an inheritable attribute that is set (not None) when the merge is
\* called, the falsy values False, 0 and '' included, has the same value
\* when the loop is over, for every kind of record and every ancestor list.
C1_SetValuesKept ==
    LoopDone =>
        \A n \in Inheritable(pre.kind) :
            Getattr(pre, n, None) # None =>
                Getattr(self, n, None) = Getattr(pre, n, None)

\* C1's case: a falsy value was set, and a matching ancestor offered another.
C1_Witness ==
    /\ LoopDone
    /\ \E n \in Inheritable(pre.kind) :
        /\ Getattr(pre, n, None) \in {"False", "0", ""}
        /\ \E j \in Offers(pre, inherited_param, n) :
              Getattr(inherited_param[j], n, None) # Getattr(pre, n, None)

\* C2: after the merge of a URI/Query/Form parameter or a Body, every
\* attribute that was None holds the value of the first ancestor, in list
\* order, that matches (same name, same MIME type) and has the attribute
\* set, and is still None when there is no such ancestor; each attribute
\* independently of the others.
C2_FirstMatchingAncestor ==
    (LoopDone /\ pre.kind \in NamedParameterKinds \cup {"Body"}) =>
        \A n \in Inheritable(pre.kind) :
            Getattr(pre, n, None) = None =>
                Getattr(self, n, None) = FirstOffer(pre, inherited_param, n)

\* C2's case: two attributes of a parameter were taken from two different
\* ancestors.
C2_Witness ==
    /\ LoopDone
    /\ pre.kind \in NamedParameterKinds
    /\ \E n1, n2 \in Inheritable(pre.kind) :
        /\ pre[n1] = None /\ pre[n2] = None
        /\ Offers(pre, inherited_param, n1) # {}
        /\ Offers(pre, inherited_param, n2) # {}
        /\ First(Offers(pre, inherited_param, n1))
              # First(Offers(pre, inherited_param, n2))
        /\ self[n1] # None /\ self[n2] # None

\* The positions in A of the ancestors that have n set, whatever their name.
OffersAnyName(A, n) == {j \in 1..Len(A) : Getattr(A[j], n, None) # None}

\* C8: a Header takes each attribute of NAMED_PARAMS and method that was None
\* from the first ancestor that has it set, whatever that ancestor's name; a
\* URI/Query/Form parameter changes an attribute only to the value an
\* ancestor of its own name has.
C8_HeaderNoNameFilter ==
    /\ (LoopDone /\ pre.kind = "Header") =>
          \A n \in Range(NAMED_PARAMS) \cup {"method"} :
              Getattr(pre, n, None) = None =>
                  Getattr(self, n, None) =
                      IF OffersAnyName(inherited_param, n) = {} THEN None
                      ELSE inherited_param[First(OffersAnyName(inherited_param, n))][n]
    /\ (LoopDone /\ pre.kind \in NamedParameterKinds) =>
          \A n \in Range(NAMED_PARAMS) :
              self[n] # pre[n] =>
                  \E j \in 1..Len(inherited_param) :
                      /\ inherited_param[j].name = pre.name
                      /\ inherited_param[j][n] = self[n]

\* C8's case: a header took a value from an ancestor of another name.
C8_Witness ==
    /\ LoopDone
    /\ pre.kind = "Header"
    /\ \E n \in Range(NAMED_PARAMS) \cup {"method"} :
        /\ pre[n] = None
        /\ OffersAnyName(inherited_param, n) # {}
        /\ inherited_param[First(OffersAnyName(inherited_param, n))].name
              # pre.name
        /\ self[n] # None

\* The record init builds from a declaration keeps it as raw.
RawOfInput(r, d) ==
    IF r.kind \in NamedParameterKinds \cup {"Header"}
    THEN Dict(r.name :> d)
    ELSE d

\* C9: raw is the input of init, {name: declaration} for a named parameter
\* or a header and the declaration itself for a body or a response, without
\* the defaults init applies, and it is the same during and after any merge.
C9_RawIsInput == self.raw = RawOfInput(self, data)

\* C9's case: a parameter declared without a value got its defaults and was
\* then changed by a merge.
C9_Witness ==
    /\ LoopDone
    /\ self.kind = "QueryParameter"
    /\ data = NoneValue
    /\ self.required = "False" /\ self.type = "string"
    /\ self # pre

\* What a step may do to the record and to the ancestors: an inheritable
\* attribute that is set stays as it is, every other field of the record
\* stays as it is, and the ancestors of a running merge stay as they are.
C10_Step ==
    /\ \A n \in Inheritable(self.kind) :
          Getattr(self, n, None) # None =>
              Getattr(self', n, None) = Getattr(self, n, None)
    /\ \A f \in (DOMAIN self) \ Inheritable(self.kind) :
          f \in DOMAIN self' /\ self'[f] = self[f]
    /\ (pc = "loop" /\ pc' = "loop") => inherited_param' = inherited_param

\* C10: across every step of a merge and across any sequence of merges of
\* the same record, an inheritable attribute changes at most once, from None
\* to a value, and is never changed once it is set; no other field of the
\* record and no field of an ancestor is changed.
C10_FillOnce == [][C10_Step]_vars

\* C10's case: a record changed by an earlier merge is changed by this one.
C10_Witness ==
    /\ LoopDone
    /\ pre.kind \in NamedParameterKinds
    /\ pre # init(pre.kind, pre.name, data, Config, "E1", NoKwargs)
    /\ self # pre

\* validate.string_type_parameter: a value that is set is accepted only on a
\* record of type string.
string_type_parameter(inst, value) ==
    value # None => inst.type = "string"

\* validate.integer_number_type_parameter: a value that is set is accepted
\* only on a record of type integer or number.
integer_number_type_parameter(inst, value) ==
    value # None => inst.type \in {"integer", "number"}

\* The validators BaseParameter attaches to its attributes, which run when a
\* record is constructed: all of them accept the record as it is.
BaseParameter_validators(inst) ==
    /\ string_type_parameter(inst, inst.min_length)
    /\ string_type_parameter(inst, inst.max_length)
    /\ integer_number_type_parameter(inst, inst.minimum)
    /\ integer_number_type_parameter(inst, inst.maximum)
    /\ string_type_parameter(inst, inst.pattern)
    /\ string_type_parameter(inst, inst.enum)

\* C11: when a URI/Query/Form parameter or a Header and every ancestor of
\* the list satisfy the type constraint at the call of the merge (min_length,
\* max_length, pattern and enum set only on type string; minimum and maximum
\* set only on type integer or number), the record satisfies it when
\* _inherit_type_properties returns.
C11_TypeConstraintPreserved ==
    (/\ LoopDone
     /\ pre.kind \in NamedParameterKinds \cup {"Header"}
     /\ BaseParameter_validators(pre)
     /\ \A j \in 1..Len(inherited_param) :
            BaseParameter_validators(inherited_param[j]))
        => BaseParameter_validators(self)

\* ------------------------------------------------ security scheme assembler

\* classes: the describedBy keys built by a list builder.
ClassKeys == {"headers", "body", "responses", "queryParameters",
              "uriParameters", "formParameters"}

\* other: the describedBy keys passed through.
OtherKeys == {"usage", "mediaType", "protocols"}

\* The describedBy key itself as the attribute's name, for every key.
AttributeNameIsKey(obj) == obj

\* attribute_name = value[0] if diff_name else obj; other[obj].
AttributeName(obj) ==
    CASE obj = "queryParameters" -> "query_params"
      [] obj = "uriParameters" -> "uri_params"
      [] obj = "formParameters" -> "form_params"
      [] obj = "mediaType" -> "media_type"
      [] OTHER -> obj

\* data_cls = value[1] if diff_name else value
DataCls(obj) ==
    CASE obj = "headers" -> "Header"
      [] obj = "body" -> "Body"
      [] obj = "responses" -> "Response"
      [] obj = "queryParameters" -> "QueryParameter"
      [] obj = "uriParameters" -> "URIParameter"
      [] obj = "formParameters" -> "FormParameter"

\* cls.init_list(data, config): errors is not passed and is the default of
\* the function that cls binds to init_list.
init_list_default_errors(cls, d, config) ==
    CASE cls = "Body" ->
            Body_init_list(d, config, DefaultErrors("Body.init_list"))
      [] cls = "Response" ->
            Response_init_list(d, config, DefaultErrors("Response.init_list"))
      [] OTHER ->
            BaseParameter_init_list(cls, d, config,
                DefaultErrors("BaseParameter.init_list"), EmptyDict)

Documentation(title, content) ==
    [kind |-> "Documentation", _title |-> title, _content |-> content]

\* The loop of from_file over the entries of scheme.described_by, from the
\* k-th on.
RECURSIVE DescribedByLoop(_, _, _, _)
DescribedByLoop(scheme, pairs, k, root) ==
    IF k > Len(pairs) THEN scheme
    ELSE LET obj == pairs[k].key
             scheme_data == pairs[k].value
         IN  IF obj \in ClassKeys
             THEN LET v == init_list_default_errors(DataCls(obj), scheme_data,
                                                    root.config)
                  IN  IF IsRaise(v) THEN v
                      ELSE DescribedByLoop(Setattr(scheme, AttributeName(obj), v),
                                           pairs, k + 1, root)
             ELSE IF obj = "documentation"
             THEN IF scheme_data.tag # "list" THEN Raise("AssertionError")
                  ELSE LET docs == [j \in 1..Len(scheme_data.items) |->
                                       Documentation(
                                           _get(scheme_data.items[j], "title", None),
                                           _get(scheme_data.items[j], "content", None))]
                       IN  DescribedByLoop(
                               Setattr(scheme, "documentation",
                                       IF Len(scheme_data.items) = 0
                                       THEN NoneValue ELSE List(docs)),
                               pairs, k + 1, root)
             ELSE IF obj \in OtherKeys
             THEN DescribedByLoop(Setattr(scheme, AttributeName(obj), scheme_data),
                                  pairs, k + 1, root)
             ELSE DescribedByLoop(scheme, pairs, k + 1, root)

\* The body of from_file's loop over the schemes: s is a mapping of one key,
\* the scheme's name, to its declaration.
SchemeOf(s, root) ==
    LET name == s.pairs[1].key
        d == s.pairs[1].value
        scheme == [kind |-> "SecurityScheme", name |-> name, raw |-> d,
                   type |-> _get(d, "type", None),
                   described_by |-> _get(d, "describedBy", EmptyODict),
                   desc |-> _get(d, "description", None),
                   settings |-> _get(d, "settings", None),
                   config |-> root.config, errors |-> root.errors]
    IN  IF scheme.described_by.tag # "odict" THEN Raise("AttributeError")
        ELSE DescribedByLoop(scheme, scheme.described_by.pairs, 1, root)

\* SecurityScheme.from_file(raml, root)
from_file(raml, root) ==
    LET schemes == _get(raml, "securitySchemes", List(<<>>))
        scheme_objs == [k \in 1..Len(schemes.items) |->
                           SchemeOf(schemes.items[k], root)]
        raised == {k \in 1..Len(schemes.items) : IsRaise(scheme_objs[k])}
    IN  IF raised # {} THEN scheme_objs[First(raised)]
        ELSE IF Len(schemes.items) = 0 THEN NoneValue
        ELSE List(scheme_objs)

\* ------------------------------------------------- inputs of the builders

\* The longest mapping a list builder is called with, and the longest
\* describedBy clause of a security scheme.
MaxEntries == 3
MaxDescribedBy == 2

InitDecls == ParamDecls \cup {Dict("required" :> "True"),
                              Dict("required" :> "False"),
                              Dict(("displayName" :> "Id") @@ ("repeat" :> "True"))}

EntryNames == {"id", "lang", "q"}
EntryDecls == {NoneValue, DeclA, DeclB}
EntryMimeTypes == MimeTypes \cup {"text/plain"}
EntryBodyDecls == {NoneValue, BodyA, BodyB}
EntryCodes == {"200", "201", "404", "500"}
EntryResponseDecls == {ResponseA, ResponseB}

DistinctKeys(q) == \A j, k \in 1..Len(q) : j # k => q[j].key # q[k].key

\* The ordered mappings of at most MaxEntries keys to values: a mapping has
\* each key once.
Mappings(keys, values) ==
    {ODict(q) : q \in {m \in SeqsUpTo({Pair(k, v) : k \in keys, v \in values},
                                      MaxEntries) : DistinctKeys(m)}}

\* A string as the value of a describedBy key.
Scalar(v) == [tag |-> "str", value |-> v]

\* Entries of a describedBy clause.
DescribedByEntries ==
    <<Pair("headers", HeadersX),
      Pair("headers", EmptyODict),
      Pair("body", BodiesX),
      Pair("responses", ODict(<<Pair("404", ResponseA), Pair("200", ResponseB)>>)),
      Pair("queryParameters", ODict(<<Pair("id", DeclA)>>)),
      Pair("queryParameters", NoneValue),
      Pair("uriParameters", ODict(<<Pair("id", NoneValue)>>)),
      Pair("formParameters", ODict(<<Pair("lang", DeclB)>>)),
      Pair("documentation",
           List(<<Dict(("title" :> "Intro") @@ ("content" :> "text"))>>)),
      Pair("documentation", List(<<>>)),
      Pair("documentation", Dict("title" :> "Intro")),
      Pair("usage", Scalar("text")),
      Pair("mediaType", Scalar("application/json")),
      Pair("protocols", List(<<Scalar("HTTPS")>>)),
      Pair("x-signature", Scalar("text")),
      Pair("description", Scalar("text"))>>

\* The describedBy clauses: at most MaxDescribedBy entries of distinct keys.
DescribedByChoices ==
    {q \in SeqsUpTo(1..Len(DescribedByEntries), MaxDescribedBy) :
        \A j, k \in 1..Len(q) :
            j # k => DescribedByEntries[q[j]].key # DescribedByEntries[q[k]].key}

DescribedByOf(q) == ODict([k \in 1..Len(q) |-> DescribedByEntries[q[k]]])

BasicScheme == ODict(<<Pair("basic", Dict("type" :> "Basic Authentication"))>>)
SchemeWith(db) ==
    ODict(<<Pair("oauth_2_0",
                 Dict(("type" :> "OAuth 2.0") @@ ("describedBy" :> db)))>>)

\* The documents: without securitySchemes, with an empty list of them, with
\* one scheme, and with two.
NoSchemes == {Dict("title" :> "API"),
              Dict(("title" :> "API") @@ ("securitySchemes" :> List(<<>>)))}
Documents(db) ==
    {Dict(("title" :> "API") @@ ("securitySchemes" :> List(<<SchemeWith(db)>>))),
     Dict(("title" :> "API")
          @@ ("securitySchemes" :> List(<<BasicScheme, SchemeWith(db)>>)))}

Root(E) == [config |-> Config, errors |-> E]

\* ------------------------------------------------ the builders, call by call

InitBuild ==
    /\ self = NoneValue
    /\ data = NoneValue
    /\ inherited_param = <<>>
    /\ pre = NoneValue
    /\ i = 0
    /\ pc = "idle"
    /\ op = [name |-> "none"]
    /\ ret = NoneValue
    /\ sinks = [p \in Passes |-> {}]

\* cls.init(name, data, config, errors, **kwargs) for a named parameter or a
\* header.
Do_init ==
    /\ op.name = "none"
    /\ \E cls \in NamedParameterKinds \cup {"Header"}, n \in ParamNames,
          d \in InitDecls, E \in Passes, kw \in {NoKwargs, MethodOf(DeclA)} :
        /\ cls # "Header" => kw = NoKwargs
        /\ op' = [name |-> "init", cls |-> cls, key |-> n, data |-> d,
                  errors |-> E, kwargs |-> kw]
        /\ ret' = init(cls, n, d, Config, E, kw)
    /\ UNCHANGED <<mergeVars, sinks>>

Do_Body_init ==
    /\ op.name = "none"
    /\ \E m \in MimeTypes, d \in BodyDecls \cup {NoneValue, BodyC}, E \in Passes :
        /\ op' = [name |-> "Body.init", cls |-> "Body", key |-> m, data |-> d,
                  errors |-> E]
        /\ ret' = Body_init(m, d, Config, E)
    /\ UNCHANGED <<mergeVars, sinks>>

Do_Response_init ==
    /\ op.name = "none"
    /\ \E c \in Codes, d \in ResponseDecls \cup {NoneValue}, E \in Passes :
        /\ op' = [name |-> "Response.init", cls |-> "Response", key |-> c,
                  data |-> d, errors |-> E]
        /\ ret' = Response_init(c, d, Config, E)
    /\ UNCHANGED <<mergeVars, sinks>>

\* cls.init_list(data, config, errors) for a named parameter or a header.
Do_init_list ==
    /\ op.name = "none"
    /\ \E cls \in NamedParameterKinds \cup {"Header"},
          d \in Mappings(EntryNames, EntryDecls), E \in Passes :
        /\ op' = [name |-> "init_list", cls |-> cls, data |-> d, errors |-> E]
        /\ ret' = BaseParameter_init_list(cls, d, Config, E, NoKwargs)
    /\ UNCHANGED <<mergeVars, sinks>>

Do_Body_init_list ==
    /\ op.name = "none"
    /\ \E d \in Mappings(EntryMimeTypes, EntryBodyDecls), E \in Passes :
        /\ op' = [name |-> "init_list", cls |-> "Body", data |-> d, errors |-> E]
        /\ ret' = Body_init_list(d, Config, E)
    /\ UNCHANGED <<mergeVars, sinks>>

Do_Response_init_list ==
    /\ op.name = "none"
    /\ \E d \in Mappings(EntryCodes, EntryResponseDecls), E \in Passes :
        /\ op' = [name |-> "init_list", cls |-> "Response", data |-> d,
                  errors |-> E]
        /\ ret' = Response_init_list(d, Config, E)
    /\ UNCHANGED <<mergeVars, sinks>>

\* SecurityScheme.from_file(raml, root)
Do_from_file ==
    /\ op.name = "none"
    /\ \E q \in DescribedByChoices, E \in Passes :
        \E raml \in NoSchemes \cup Documents(DescribedByOf(q)) :
            /\ op' = [name |-> "from_file", raml |-> raml, errors |-> E]
            /\ ret' = from_file(raml, Root(E))
    /\ UNCHANGED <<mergeVars, sinks>>

\* The caller has taken the result.
Finish ==
    /\ op.name # "none"
    /\ op' = [name |-> "none"]
    /\ ret' = NoneValue
    /\ UNCHANGED <<mergeVars, sinks>>

NextBuild ==
    \/ Do_init \/ Do_Body_init \/ Do_Response_init
    \/ Do_init_list \/ Do_Body_init_list \/ Do_Response_init_list
    \/ Do_from_file \/ Finish

SpecBuild == InitBuild /\ [][NextBuild]_vars

\* ------------------------------------------------ properties of the builders

\* C3: a list builder called with an empty mapping returns None, for every
\* kind, and the Response of a declaration without headers and without body
\* has headers None and body None.
C3_EmptyMappingGivesNone ==
    /\ (op.name = "init_list" /\ op.data = EmptyODict) => ret = NoneValue
    /\ (/\ op.name = "Response.init"
        /\ op.data.tag = "dict"
        /\ "headers" \notin DOMAIN op.data.items
        /\ "body" \notin DOMAIN op.data.items)
       => (ret.headers = NoneValue /\ ret.body = NoneValue)

\* C5: Response.init_list returns the declared responses, each once, in
\* ascending order of code; responses of equal code keep the order of their
\* declaration.
C5_ResponsesSortedByCode ==
    (op.name = "init_list" /\ op.cls = "Response" /\ ret.tag = "list") =>
        LET r == ret.items
            m == op.data.pairs
        IN  /\ Len(r) = Len(m)
            /\ \A k \in 1..(Len(r) - 1) :
                  CodeNumber(r[k].code) <= CodeNumber(r[k + 1].code)
            /\ \A j \in 1..Len(m) :
                  Cardinality({k \in 1..Len(r) :
                      r[k].code = m[j].key /\ r[k].raw = m[j].value})
                  = Cardinality({k \in 1..Len(m) :
                      m[k].key = m[j].key /\ m[k].value = m[j].value})
            /\ \A j1, j2 \in 1..Len(m) :
                  (j1 < j2 /\ m[j1].key = m[j2].key) =>
                      \E k1, k2 \in 1..Len(r) :
                          /\ k1 < k2
                          /\ r[k1].raw = m[j1].value
                          /\ r[k2].raw = m[j2].value

\* C5's case: the codes 404, 200, 500 come back as 200, 404, 500.
C5_Witness ==
    /\ op.name = "init_list" /\ op.cls = "Response" /\ ret.tag = "list"
    /\ Len(op.data.pairs) = 3
    /\ op.data.pairs[1].key = "404"
    /\ op.data.pairs[2].key = "200"
    /\ op.data.pairs[3].key = "500"
    /\ ret.items[1].code = "200"
    /\ ret.items[2].code = "404"
    /\ ret.items[3].code = "500"

\* C6: init of a declaration without 'required' (a mapping, an empty mapping
\* or None) yields required True for a URIParameter and False for a
\* QueryParameter, a FormParameter or a Header; a declared 'required' is
\* kept as declared, for every kind.
C6_RequiredDefault ==
    op.name = "init" =>
        IF op.data.tag = "dict" /\ "required" \in DOMAIN op.data.items
        THEN ret.required = op.data.items["required"]
        ELSE ret.required = (IF op.cls = "URIParameter" THEN "True" ELSE "False")

\* C6's case: a URI parameter declared without a value is required.
C6_Witness ==
    /\ op.name = "init"
    /\ op.cls = "URIParameter"
    /\ op.data = NoneValue
    /\ ret.required = "True"

\* The attribute each describedBy key is attached as.
AttachedAs(key) ==
    CASE key = "headers" -> "headers"
      [] key = "body" -> "body"
      [] key = "responses" -> "responses"
      [] key = "queryParameters" -> "query_params"
      [] key = "uriParameters" -> "uri_params"
      [] key = "formParameters" -> "form_params"
      [] key = "documentation" -> "documentation"
      [] key = "usage" -> "usage"
      [] key = "mediaType" -> "media_type"
      [] key = "protocols" -> "protocols"

AttachedKeys == ClassKeys \cup OtherKeys \cup {"documentation"}

SchemeFields == {"kind", "name", "raw", "type", "described_by", "desc",
                 "settings", "config", "errors"}

\* The schemes a document declares.
DeclaredSchemes(raml) == _get(raml, "securitySchemes", List(<<>>)).items

\* An entry of describedBy whose value has not the shape its key asks for.
Malformed(pair) ==
    \/ pair.key \in ClassKeys /\ pair.value.tag # "odict"
    \/ pair.key = "documentation" /\ pair.value.tag # "list"

\* C7: from_file returns None for a document without schemes; each scheme it
\* returns has the attribute of a describedBy key exactly when the key is
\* declared, under the mapped name, and has no other attribute than these
\* and its fields; an exception comes only from an entry of a known key.
C7_AttachedIffDeclared ==
    op.name = "from_file" =>
        LET schemes == DeclaredSchemes(op.raml)
        IN  /\ Len(schemes) = 0 => ret = NoneValue
            /\ ret.tag = "list" =>
                  /\ Len(ret.items) = Len(schemes)
                  /\ \A k \in 1..Len(ret.items) :
                        LET scheme == ret.items[k]
                            declared == {scheme.described_by.pairs[j].key :
                                j \in 1..Len(scheme.described_by.pairs)}
                        IN  /\ scheme.described_by =
                                  _get(schemes[k].pairs[1].value, "describedBy",
                                       EmptyODict)
                            /\ \A key \in AttachedKeys :
                                  AttachedAs(key) \in DOMAIN scheme
                                      <=> key \in declared
                            /\ DOMAIN scheme \subseteq
                                  SchemeFields \cup
                                      {AttachedAs(key) : key \in AttachedKeys}
            /\ IsRaise(ret) =>
                  \E k \in 1..Len(schemes) :
                      LET db == _get(schemes[k].pairs[1].value, "describedBy",
                                     EmptyODict).pairs
                      IN  \E j \in 1..Len(db) : Malformed(db[j])

\* C7's case: a scheme described by queryParameters and by an unknown key.
C7_Witness ==
    /\ op.name = "from_file"
    /\ ret.tag = "list"
    /\ \E k \in 1..Len(ret.items) :
        LET scheme == ret.items[k]
            declared == {scheme.described_by.pairs[j].key :
                j \in 1..Len(scheme.described_by.pairs)}
        IN  /\ declared = {"queryParameters", "x-signature"}
            /\ "query_params" \in DOMAIN scheme
            /\ scheme.query_params.tag = "list"

\* ------------------------------------------- passes and their errors lists

\* The errors lists the records of a result are bound to: of the record
\* itself, of the headers and bodies of a response, of the collections
\* attached to a security scheme.
RECURSIVE ErrorsOf(_)
ErrorsOf(v) ==
    IF "kind" \in DOMAIN v
    THEN CASE v.kind = "Documentation" -> {}
           [] v.kind = "Response" ->
                {v.errors} \cup ErrorsOf(v.headers) \cup ErrorsOf(v.body)
           [] v.kind = "SecurityScheme" ->
                {v.errors} \cup
                UNION {ErrorsOf(v[a]) :
                          a \in (DOMAIN v) \cap {"headers", "body", "responses",
                                                 "query_params", "uri_params",
                                                 "form_params"}}
           [] OTHER -> {v.errors}
    ELSE IF v.tag = "list"
    THEN UNION {ErrorsOf(v.items[k]) : k \in 1..Len(v.items)}
    ELSE {}

\* A pass with the errors collection E builds a list of parameters.
Pass_init_list ==
    /\ op.name = "none"
    /\ \E cls \in {"QueryParameter", "Header"}, E \in Passes :
        LET d == ODict(<<Pair("id", DeclA), Pair("lang", NoneValue)>>)
        IN  /\ op' = [name |-> "init_list", cls |-> cls, data |-> d,
                      errors |-> E]
            /\ ret' = BaseParameter_init_list(cls, d, Config, E, NoKwargs)
            /\ sinks' = [sinks EXCEPT ![E] = @ \cup ErrorsOf(ret')]
    /\ UNCHANGED mergeVars

\* A pass with the errors collection E builds a response.
Pass_Response_init ==
    /\ op.name = "none"
    /\ \E c \in Codes, d \in ResponseDecls, E \in Passes :
        /\ op' = [name |-> "Response.init", cls |-> "Response", key |-> c,
                  data |-> d, errors |-> E]
        /\ ret' = Response_init(c, d, Config, E)
        /\ sinks' = [sinks EXCEPT ![E] = @ \cup ErrorsOf(ret')]
    /\ UNCHANGED mergeVars

\* A pass whose root node has the errors collection E builds the security
\* schemes of a document.
Pass_from_file ==
    /\ op.name = "none"
    /\ \E q \in DescribedByChoices, E \in Passes :
        \E raml \in Documents(DescribedByOf(q)) :
            /\ op' = [name |-> "from_file", raml |-> raml, errors |-> E]
            /\ ret' = from_file(raml, Root(E))
            /\ ~IsRaise(ret')
            /\ sinks' = [sinks EXCEPT ![E] = @ \cup ErrorsOf(ret')]
    /\ UNCHANGED mergeVars

NextPass == Pass_init_list \/ Pass_Response_init \/ Pass_from_file \/ Finish

SpecPass == InitBuild /\ [][NextPass]_vars

\* C4: every record a pass constructs has the errors collection of the pass
\* as its errors, and no errors list is bound to records of two passes.
C4_ErrorsThreaded ==
    /\ \A p \in Passes : sinks[p] \subseteq {p}
    /\ \A p, q \in Passes : p # q => sinks[p] \cap sinks[q] = {}

====
